---- MODULE Spec2Model ----
(***************************************************************************)
(* Model of the docl test-framework wrapper                                *)
(* (tests/integration_tests/framework/docl.py): the lifecycle operations   *)
(* run_manager, restart_manager and bootstrap_prepared_container, and the  *)
(* readiness pass _wait_for_services with its retry loop _retry (Spec,     *)
(* FairSpec); the context manager update_config (ConfigSpec); and the      *)
(* REST status resource rest/resources_v1/status.py (StatusSpec).          *)
(*                                                                         *)
(* One step of the model is one interaction of the code with the outside:  *)
(* an external docl command, one call of a probe's func, one call of its   *)
(* cleanup, one time.sleep.  The outcome of each interaction (normal       *)
(* return, or an exception of some class) is chosen by the environment.    *)
(***************************************************************************)
EXTENDS Integers, Sequences, FiniteSets, TLC

\* Iterations of the retry loop.  The code iterates range(600); the model
\* keeps the loop and scales its length so that budget exhaustion of every
\* probe is explored.
MaxAttempts == 3

\* The four _retry calls of _wait_for_services, in program order.
Probes == 1..4

\* The logger.info line that precedes each _retry call.
ProbeName == <<"RabbitMQ", "REST service and Storage", "logstash", "postgres">>

\* The exceptions= argument of each _retry call.
Exceptions ==
    << {"AMQPConnectionError"},
       {"ConnectionError", "CloudifyClientError"},
       {"IOError"},
       {"IOError"} >>

\* Whether the _retry call passes cleanup=.
HasCleanup == <<TRUE, FALSE, TRUE, TRUE>>

\* The probe whose func opens a pika connection and whose cleanup closes it.
BrokerProbe == 1

\* TCP port the probe connects a raw socket to (0: it connects none).
Port == <<0, 0, 9999, 5432>>

\* The probes whose func is sock.connect on a socket created just before.
SocketProbes == {p \in Probes : Port[p] # 0}

\* Exception classes the func and the cleanup of probe p may raise: the
\* classes its _retry call lists, and "Exception", which stands for any class
\* that call does not list.
Errors(p) == Exceptions[p] \cup {"Exception"}

\* Mutant: a bare `except:` that catches everything.
Caught_all(exceptions, e) == TRUE

\* `except exceptions:` catches e when e is of a listed class.
Caught(exceptions, e) == e \in exceptions

\* Container ids the external docl tool may report; a container's address is
\* identified with its id.
Containers == {"c1", "c2"}
None == "None"

VARIABLES
    op,                   \* lifecycle operation last called
    pc,                   \* where that operation stands
    cur,                  \* index of the _retry call being executed
    calls,                \* per probe: calls of func (= loop iterations begun)
    sleeps,               \* per probe: calls of time.sleep
    cleanups,             \* per probe: calls of cleanup
    firstOk,              \* per probe: iteration of func's first normal return
    successes,            \* per probe: times the loop was left by break
    conns,                \* pika connections opened by this pass and not closed
    sock,                 \* per probe: state of the socket created for it
    lastExc,              \* exception most recently caught by `except`
    raised,               \* exception that left the operation
    raisedIn,             \* the call that raised it (innermost traceback entry)
    default_container_id, \* module global default_container_id
    manager_ip,           \* os.environ[constants.DOCL_CONTAINER_IP]
    container_ip,         \* address the readiness pass probes
    target,               \* container id the last docl command was given
    arg,                  \* container_id argument of the operation last called
    container_details,    \* container_details the docl command reported
    docl_calls,           \* docl commands the operation last called has run
    earlier,              \* how the latest readiness pass before this operation ended
    config_yaml,          \* contents of <docl_home>/config.yaml
    frames,               \* update_config blocks entered and not left, innermost first
    exited,               \* how the update_config block left last was left
    premium,              \* cloudify_premium.ha can be imported
    node_status,          \* node_status.get('initialized')
    systemddbus,          \* manager_rest.systemddbus can be imported
    inactive,             \* systemd units that are not running
    job_list,             \* job_list of the latest Status.get
    clustered,            \* what _is_clustered() returned to the latest Status.get
    seen,                 \* values _is_clustered() has returned so far
    error,                \* what the try block of the latest Status.get raised
    response              \* outcome of the latest Status.get

\* What the operation in progress was called with and got from docl.
invocation == <<target, arg, container_details, docl_calls, earlier>>

\* State of the lifecycle operations and the readiness pass.
docl_state == <<op, pc, cur, calls, sleeps, cleanups, firstOk, successes,
                conns, sock, lastExc, raised, raisedIn, default_container_id,
                manager_ip, container_ip, target, arg, container_details,
                docl_calls, earlier>>

\* State of update_config.
config_state == <<config_yaml, frames, exited>>

\* State of the status resource and of the host it reports on.
status_state == <<premium, node_status, systemddbus, inactive, job_list,
                  clustered, seen, error, response>>

\* What the lifecycle operations and the readiness pass neither read nor
\* write.
outside == <<config_state, status_state>>

vars == <<docl_state, config_state, status_state>>

globals == <<default_container_id, manager_ip>>

Zero == [p \in Probes |-> 0]
NoSock == [p \in Probes |-> "none"]

\* No operation is executing: the caller may invoke one.
Ended == pc \in {"idle", "returned", "exhausted", "propagated", "docl_failed"}

\* A readiness pass is executing.
InPass == pc \in {"func", "cleanup", "except", "else"}

\* No lifecycle operation has been called.
Idle ==
    /\ op = "none"
    /\ pc = "idle"
    /\ cur = 0
    /\ calls = Zero
    /\ sleeps = Zero
    /\ cleanups = Zero
    /\ firstOk = Zero
    /\ successes = Zero
    /\ conns = 0
    /\ sock = NoSock
    /\ lastExc = "none"
    /\ raised = "none"
    /\ raisedIn = "none"
    /\ default_container_id = None
    /\ manager_ip = None
    /\ container_ip = None
    /\ target = None
    /\ arg = None
    /\ container_details = None
    /\ docl_calls = 0
    /\ earlier = "none"

\* A dict with no key.
NoTable == [k \in {} |-> ""]

\* config.yaml as docl wrote it, no update_config block entered.
NoBlock ==
    /\ config_yaml = [expose |-> <<>>, resources |-> <<>>,
                      simple_manager_blueprint_path |-> None]
    /\ frames = <<>>
    /\ exited = "none"

\* A single-node host on which no status request was served.
NoRequest ==
    /\ premium = FALSE
    /\ node_status = FALSE
    /\ systemddbus = TRUE
    /\ inactive = {}
    /\ job_list = NoTable
    /\ clustered = FALSE
    /\ seen = {}
    /\ error = "none"
    /\ response = [kind |-> "none"]

Init == Idle /\ NoBlock /\ NoRequest

(***************************************************************************)
(* _retry                                                                  *)
(***************************************************************************)

\* Mutant: one budget shared by the four probes instead of one each.
LoopContinues_shared(n) ==
    calls[1] + calls[2] + calls[3] + calls[4] < MaxAttempts

\* `for _ in range(600)`: after n iterations the loop runs another one.
LoopContinues(n) == n < MaxAttempts

\* Mutant: the for-else clause raises an error of its own.
Reraise_named(last) == {"ReadinessError"}

\* The bare `raise` of the for-else clause.  It re-raises the exception the
\* except clause handled last where the interpreter keeps it after the clause
\* (Python 2), and is a RuntimeError where the interpreter has dropped it
\* (Python 3).
Reraise(last) == {last, "RuntimeError"}

\* Mutant: the REST probe is left out of the sequence.
NextProbe_skip(p) == IF p = 1 THEN 3 ELSE p + 1

\* The _retry call that follows the p-th one in _wait_for_services.
NextProbe(p) == p + 1

\* `sock = socket.socket(...)` before the _retry call of a socket probe.
NewSocket(s, p) == IF p \in SocketProbes THEN [s EXCEPT ![p] = "fresh"] ELSE s

\* sock.connect returned: the socket of the current probe is connected.
Opened(s) == IF cur \in SocketProbes THEN [s EXCEPT ![cur] = "connected"] ELSE s

\* Mutant: the cleanup lambda does not close the socket.
Closed_noop(s) == s

\* sock.close() was called on the socket of the current probe.  A close that
\* reports an error has released the descriptor all the same.
Closed(s) == IF cur \in SocketProbes THEN [s EXCEPT ![cur] = "closed"] ELSE s

\* func can return normally: connect succeeds only on a socket that is
\* neither connected nor closed.
CanReturn == cur \notin SocketProbes \/ sock[cur] = "fresh"

\* What func can raise: connect on a connected or closed socket raises
\* socket.error, an IOError.
FuncErrors == IF CanReturn THEN Errors(cur) ELSE {"IOError"}

\* `break`: _retry returns; _wait_for_services goes on to the next _retry
\* call, or returns after the last one, and so does the operation.
Break(s) ==
    /\ successes' = [successes EXCEPT ![cur] = @ + 1]
    /\ lastExc' = "none"
    /\ UNCHANGED <<raised, raisedIn>>
    /\ IF cur < Len(ProbeName)
         THEN /\ cur' = NextProbe(cur)
              /\ pc' = "func"
              /\ sock' = NewSocket(s, cur')
         ELSE /\ cur' = cur
              /\ pc' = "returned"
              /\ sock' = s

\* An exception e leaves the try block: `except exceptions:` handles it, or
\* it leaves _retry, _wait_for_services and the operation.
Except(e, s, where) ==
    /\ successes' = successes
    /\ cur' = cur
    /\ sock' = s
    /\ IF Caught(Exceptions[cur], e)
         THEN /\ pc' = "except"
              /\ lastExc' = e
              /\ UNCHANGED <<raised, raisedIn>>
         ELSE /\ pc' = "propagated"
              /\ lastExc' = lastExc
              /\ raised' = e
              /\ raisedIn' = where

\* `res = func()`
func ==
    /\ pc = "func"
    /\ calls' = [calls EXCEPT ![cur] = @ + 1]
    /\ \/ /\ CanReturn
          /\ firstOk' = IF firstOk[cur] = 0
                           THEN [firstOk EXCEPT ![cur] = calls[cur] + 1]
                           ELSE firstOk
          /\ conns' = IF cur = BrokerProbe THEN conns + 1 ELSE conns
          /\ IF HasCleanup[cur]
               THEN /\ pc' = "cleanup"
                    /\ sock' = Opened(sock)
                    /\ UNCHANGED <<cur, successes, lastExc, raised, raisedIn>>
               ELSE Break(sock)
       \/ /\ \E e \in FuncErrors : Except(e, sock, "func")
          /\ UNCHANGED <<firstOk, conns>>
    /\ UNCHANGED <<op, sleeps, cleanups, globals, container_ip, invocation, outside>>

\* `if cleanup: cleanup(res)`, then `break`
cleanup ==
    /\ pc = "cleanup"
    /\ cleanups' = [cleanups EXCEPT ![cur] = @ + 1]
    /\ conns' = IF cur = BrokerProbe THEN conns - 1 ELSE conns
    /\ \/ Break(Closed(sock))
       \/ \E e \in Errors(cur) : Except(e, Closed(sock), "cleanup")
    /\ UNCHANGED <<op, calls, sleeps, firstOk, globals, container_ip, invocation, outside>>

\* `time.sleep(0.1)` in the except clause, then the next iteration if any
sleep ==
    /\ pc = "except"
    /\ sleeps' = [sleeps EXCEPT ![cur] = @ + 1]
    /\ pc' = IF LoopContinues(calls[cur]) THEN "func" ELSE "else"
    /\ UNCHANGED <<op, cur, calls, cleanups, firstOk, successes, conns, sock,
                   lastExc, raised, raisedIn, globals, container_ip, invocation, outside>>

\* Mutant: no for-else clause; _retry returns when the loop runs out.
else_pass ==
    /\ pc = "else"
    /\ Break(sock)
    /\ UNCHANGED <<op, calls, sleeps, cleanups, firstOk, conns, globals,
                   container_ip, invocation, outside>>

\* `else: raise` after the last iteration
else_raise ==
    /\ pc = "else"
    /\ \E e \in Reraise(lastExc) : raised' = e
    /\ raisedIn' = "else"
    /\ pc' = "exhausted"
    /\ UNCHANGED <<op, cur, calls, sleeps, cleanups, firstOk, successes, conns,
                   sock, lastExc, globals, container_ip, invocation, outside>>

(***************************************************************************)
(* Lifecycle operations                                                    *)
(***************************************************************************)

\* Mutant: the explicit container id is ignored.
Or_default(container_id, default) == default

\* `container_id or default_container_id`
Or(container_id, default) == IF container_id # None THEN container_id ELSE default

\* utils.get_manager_ip(): the address kept in the process environment.
get_manager_ip(env) == env

\* A new operation starts: the call counts and the resources observed are
\* those of the operation in progress (a socket object an earlier pass left
\* behind is no longer referenced).
Fresh ==
    /\ calls' = Zero
    /\ sleeps' = Zero
    /\ cleanups' = Zero
    /\ firstOk' = Zero
    /\ successes' = Zero
    /\ conns' = 0
    /\ sock' = NoSock
    /\ lastExc' = "none"
    /\ earlier' = IF op \in {"run_manager", "restart_manager"}
                    THEN CASE pc = "returned" -> "succeeded"
                           [] pc \in {"exhausted", "propagated"} -> "failed"
                           [] OTHER -> earlier
                    ELSE earlier
    /\ UNCHANGED outside

\* The external docl command exits nonzero (or leaves no details file).
docl_fails ==
    /\ pc' = "docl_failed"
    /\ raised' = "ErrorReturnCode"
    /\ raisedIn' = "docl"
    /\ cur' = 0
    /\ UNCHANGED <<globals, container_ip>>

\* _set_container_id_and_ip(d)
set_container_id_and_ip(details) ==
    /\ default_container_id' = details
    /\ manager_ip' = details

\* Mutant: a pass that follows a failed one resumes at the probe that failed.
wait_for_services_resume ==
    /\ container_ip' = get_manager_ip(manager_ip')
    /\ cur' = IF pc \in {"exhausted", "propagated"} THEN cur ELSE 1
    /\ pc' = "func"
    /\ raised' = "none"
    /\ raisedIn' = "none"

\* _wait_for_services() up to its first _retry call
wait_for_services ==
    /\ container_ip' = get_manager_ip(manager_ip')
    /\ cur' = 1
    /\ pc' = "func"
    /\ raised' = "none"
    /\ raisedIn' = "none"

\* The operation is called with container_id (None: argument omitted) and
\* addresses its docl command to `container_id or default_container_id`.
addressed(container_id) ==
    /\ arg' = container_id
    /\ target' = Or(container_id, default_container_id)
    /\ container_details' = None
    /\ docl_calls' = 1

\* The operation's docl command takes no container id.
unaddressed ==
    /\ arg' = None
    /\ target' = None
    /\ docl_calls' = 1

\* The docl command returned and the operation returns to its caller
\* without touching the default container.
docl_returns ==
    /\ pc' = "returned"
    /\ raised' = "none"
    /\ raisedIn' = "none"
    /\ cur' = 0
    /\ UNCHANGED <<globals, container_ip>>

\* An operation that runs one docl command on a container and returns.
container_command(name) ==
    /\ Ended
    /\ op' = name
    /\ \E container_id \in Containers \cup {None} : addressed(container_id)
    /\ Fresh
    /\ \/ docl_fails
       \/ docl_returns

\* An operation that runs one docl command on no container and returns.
plain_command(name) ==
    /\ Ended
    /\ op' = name
    /\ unaddressed
    /\ container_details' = None
    /\ Fresh
    /\ \/ docl_fails
       \/ docl_returns

\* prepare_bootstrappable_container(): docl prepare, set the default
\* container, return the inputs
prepare_bootstrappable_container ==
    /\ Ended
    /\ op' = "prepare_bootstrappable_container"
    /\ unaddressed
    /\ Fresh
    /\ \/ docl_fails /\ container_details' = None
       \/ \E d \in Containers :
             /\ container_details' = d
             /\ set_container_id_and_ip(d)
             /\ pc' = "returned"
             /\ raised' = "none"
             /\ raisedIn' = "none"
             /\ cur' = 0
             /\ UNCHANGED container_ip

\* Mutant: run_manager waits for the services without having set the
\* default container.
run_manager_unset ==
    /\ Ended
    /\ op' = "run_manager"
    /\ unaddressed
    /\ Fresh
    /\ \/ docl_fails /\ container_details' = None
       \/ \E d \in Containers :
             /\ container_details' = d
             /\ UNCHANGED globals
             /\ wait_for_services

\* Mutant: run_manager forgets the default container when docl run fails.
run_manager_forgets ==
    /\ Ended
    /\ op' = "run_manager"
    /\ unaddressed
    /\ Fresh
    /\ \/ /\ pc' = "docl_failed"
          /\ raised' = "ErrorReturnCode"
          /\ raisedIn' = "docl"
          /\ cur' = 0
          /\ container_details' = None
          /\ set_container_id_and_ip(None)
          /\ UNCHANGED container_ip
       \/ \E d \in Containers :
             /\ container_details' = d
             /\ set_container_id_and_ip(d)
             /\ wait_for_services

\* run_manager(): docl run, set the default container, wait for services
run_manager ==
    /\ Ended
    /\ op' = "run_manager"
    /\ unaddressed
    /\ Fresh
    /\ \/ docl_fails /\ container_details' = None
       \/ \E d \in Containers :
             /\ container_details' = d
             /\ set_container_id_and_ip(d)
             /\ wait_for_services

\* Mutant: restart_manager returns without waiting for the services.
restart_manager_nowait ==
    /\ Ended
    /\ op' = "restart_manager"
    /\ \E container_id \in Containers \cup {None} : addressed(container_id)
    /\ Fresh
    /\ \/ docl_fails
       \/ docl_returns

\* Mutant: restart_manager makes the restarted container the default one.
restart_manager_sets ==
    /\ Ended
    /\ op' = "restart_manager"
    /\ \E container_id \in Containers \cup {None} : addressed(container_id)
    /\ Fresh
    /\ \/ docl_fails
       \/ /\ set_container_id_and_ip(target')
          /\ wait_for_services

\* restart_manager(container_id): docl restart-container, wait for services
restart_manager ==
    /\ Ended
    /\ op' = "restart_manager"
    /\ \E container_id \in Containers \cup {None} : addressed(container_id)
    /\ Fresh
    /\ \/ docl_fails
       \/ /\ UNCHANGED globals
          /\ wait_for_services

\* bootstrap_prepared_container(container_id): docl bootstrap, then return
bootstrap_prepared_container ==
    container_command("bootstrap_prepared_container")

\* save_image(tag, container_id)
save_image == container_command("save_image")

\* remove_image(tag)
remove_image == plain_command("remove_image")

\* clean(label)
clean == plain_command("clean")

\* read_file(file_path, no_strip, container_id)
read_file == container_command("read_file")

\* execute(command, quiet, container_id)
execute == container_command("execute")

\* copy_file_to_manager(source, target, container_id)
copy_file_to_manager == container_command("copy_file_to_manager")

\* install_docker(container_id)
install_docker == container_command("install_docker")

\* build_agent(container_id)
build_agent == container_command("build_agent")

Next ==
    \/ prepare_bootstrappable_container
    \/ bootstrap_prepared_container
    \/ run_manager
    \/ save_image
    \/ remove_image
    \/ clean
    \/ restart_manager
    \/ read_file
    \/ execute
    \/ copy_file_to_manager
    \/ install_docker
    \/ build_agent
    \/ func
    \/ cleanup
    \/ sleep
    \/ else_raise

Spec == Init /\ [][Next]_vars

\* A called function runs to its end: every step of the pass is taken.
FairSpec ==
    /\ Spec
    /\ WF_vars(func)
    /\ WF_vars(cleanup)
    /\ WF_vars(sleep)
    /\ WF_vars(else_raise)

(***************************************************************************)
(* update_config                                                           *)
(***************************************************************************)

\* Depth to which update_config blocks are nested.
MaxDepth == 2

\* Ports, mounted directories and blueprint paths the tests configure.
Exposable == {8080, 9090}
Mountable == {"/src:/dst"}
Blueprints == {"bp1", "bp2"}

\* The lists of at most one element of S.  The empty list also stands for
\* the argument None: `list(x or [])` is empty for both.
Lists(S) == {<<>>} \cup {<<x>> : x \in S}

\* Truth value of an optional string.
Truthy(s) == s \notin {None, ""}

\* The config update_config saves on entry.
Updated(conf, additional_expose, additional_resources, manager_blueprint_path) ==
    [expose |-> conf.expose \o additional_expose,
     resources |-> conf.resources \o additional_resources,
     simple_manager_blueprint_path |->
         IF Truthy(manager_blueprint_path)
           THEN manager_blueprint_path
           ELSE conf.simple_manager_blueprint_path]

\* update_config(...) up to its yield: the body of the with block begins.
update_config_enter ==
    /\ Len(frames) < MaxDepth
    /\ \E additional_expose \in Lists(Exposable),
          additional_resources \in Lists(Mountable),
          manager_blueprint_path \in {None, ""} \cup Blueprints :
          LET conf == config_yaml
              previous_conf == conf
          IN /\ config_yaml' = Updated(conf, additional_expose,
                                       additional_resources,
                                       manager_blueprint_path)
             /\ frames' = <<[previous_conf |-> previous_conf,
                             entered |-> config_yaml,
                             additional_expose |-> additional_expose,
                             additional_resources |-> additional_resources,
                             manager_blueprint_path |-> manager_blueprint_path]>>
                          \o frames
    /\ exited' = "none"
    /\ UNCHANGED <<docl_state, status_state>>

\* Mutant: no try/finally; the config is restored only after a body that
\* returned.
update_config_exit_unguarded ==
    /\ frames # <<>>
    /\ \E how \in {"normally", "by exception"} :
          /\ exited' = how
          /\ config_yaml' = IF how = "normally"
                              THEN Head(frames).previous_conf
                              ELSE config_yaml
    /\ frames' = Tail(frames)
    /\ UNCHANGED <<docl_state, status_state>>

\* The body of the innermost with block returns or raises; `finally` saves
\* previous_conf.
update_config_exit ==
    /\ frames # <<>>
    /\ \E how \in {"normally", "by exception"} : exited' = how
    /\ config_yaml' = Head(frames).previous_conf
    /\ frames' = Tail(frames)
    /\ UNCHANGED <<docl_state, status_state>>

\* config.yaml as init() and the user's docl configuration left it.
ConfigInit ==
    /\ Idle
    /\ NoRequest
    /\ config_yaml \in [expose : Lists(Exposable),
                        resources : Lists(Mountable),
                        simple_manager_blueprint_path : {None, "bp0"}]
    /\ frames = <<>>
    /\ exited = "none"

ConfigNext ==
    \/ update_config_enter
    \/ update_config_exit

ConfigSpec == ConfigInit /\ [][ConfigNext]_vars

(***************************************************************************)
(* Status.get                                                              *)
(***************************************************************************)

\* job_list as the dict literal of Status.get builds it.
BaseTable ==
    ("cloudify-mgmtworker.service" :> "Celery Management")
    @@ ("cloudify-restservice.service" :> "Manager Rest-Service")
    @@ ("cloudify-amqpinflux.service" :> "AMQP InfluxDB")
    @@ ("cloudify-influxdb.service" :> "InfluxDB")
    @@ ("cloudify-rabbitmq.service" :> "RabbitMQ")
    @@ ("cloudify-riemann.service" :> "Riemann")
    @@ ("cloudify-webui.service" :> "Cloudify UI")
    @@ ("logstash.service" :> "Logstash")
    @@ ("nginx.service" :> "Webserver")
    @@ ("postgresql-9.5.service" :> "PostgreSQL")

\* The services that are only running in a clustered manager.
ClusterTable ==
    ("cloudify-postgresql.service" :> "PostgreSQL")
    @@ ("cloudify-consul.service" :> "Consul")
    @@ ("cloudify-syncthing.service" :> "Syncthing")

\* `del d[k]`
Del(d, k) == [x \in DOMAIN d \ {k} |-> d[x]]

\* `d.update(e)`
Update(d, e) ==
    [x \in DOMAIN d \cup DOMAIN e |-> IF x \in DOMAIN e THEN e[x] ELSE d[x]]

\* Mutant: the single-node postgresql entry is not deleted.
JobList_keep(is_clustered) ==
    IF is_clustered THEN Update(BaseTable, ClusterTable) ELSE BaseTable

\* job_list as it is passed to get_services.
JobList(is_clustered) ==
    IF is_clustered
      THEN Update(Del(BaseTable, "postgresql-9.5.service"), ClusterTable)
      ELSE BaseTable

\* The units whose state the environment changes; every other unit runs.
Watched ==
    {"nginx.service", "postgresql-9.5.service", "cloudify-postgresql.service"}

\* manager_rest.systemddbus.get_services(job_list): a mapping from the
\* display name of each unit of the table to "up" or "down".
get_services(table) ==
    [name \in {table[unit] : unit \in DOMAIN table} |->
        IF \E unit \in DOMAIN table : table[unit] = name /\ unit \in inactive
          THEN "down"
          ELSE "up"]

\* jobs = ['undefined']
Sentinel == <<"undefined">>

\* What get_services may raise.
EnumerationErrors == {"ImportError", "Exception"}

\* Mutant: `except Exception` in place of `except ImportError`.
Handled_any(e) == TRUE

\* `except ImportError`
Handled(e) == e = "ImportError"

\* What Status.get does with the outcome e of its try block, in which
\* get_services was given the job_list table if it was called.
Respond(e, table) ==
    CASE e = "none" ->
           [kind |-> "returned", status |-> "running",
            services |-> get_services(table)]
      [] e # "none" /\ Handled(e) ->
           [kind |-> "returned", status |-> "running", services |-> Sentinel]
      [] OTHER -> [kind |-> "raised", exception |-> e]

\* _is_clustered()
is_clustered == node_status

\* Status.get(): one GET request.
Status_get ==
    /\ \/ /\ ~systemddbus
          /\ error' = "ImportError"
          /\ job_list' = NoTable
          /\ UNCHANGED <<clustered, seen>>
       \/ /\ systemddbus
          /\ job_list' = JobList(is_clustered)
          /\ clustered' = is_clustered
          /\ seen' = seen \cup {is_clustered}
          /\ \E e \in {"none"} \cup EnumerationErrors : error' = e
    /\ response' = Respond(error', job_list')
    /\ UNCHANGED <<premium, node_status, systemddbus, inactive>>
    /\ UNCHANGED <<docl_state, config_state>>

\* cloudify_premium's cluster code initializes the node, or the node leaves
\* the cluster.
ha_changes ==
    /\ premium
    /\ node_status' = ~node_status
    /\ UNCHANGED <<premium, systemddbus, inactive, job_list, clustered, seen,
                   error, response>>
    /\ UNCHANGED <<docl_state, config_state>>

\* A systemd unit stops or starts.
unit_changes ==
    /\ \E unit \in Watched :
          inactive' = IF unit \in inactive
                        THEN inactive \ {unit}
                        ELSE inactive \cup {unit}
    /\ UNCHANGED <<premium, node_status, systemddbus, job_list, clustered,
                   seen, error, response>>
    /\ UNCHANGED <<docl_state, config_state>>

\* The module is imported: node_status is cloudify_premium's, or the
\* fallback {'initialized': False}.
StatusInit ==
    /\ Idle
    /\ NoBlock
    /\ premium \in BOOLEAN
    /\ node_status \in (IF premium THEN BOOLEAN ELSE {FALSE})
    /\ systemddbus \in BOOLEAN
    /\ inactive = {}
    /\ job_list = NoTable
    /\ clustered = FALSE
    /\ seen = {}
    /\ error = "none"
    /\ response = [kind |-> "none"]

StatusNext ==
    \/ Status_get
    \/ ha_changes
    \/ unit_changes

StatusSpec == StatusInit /\ [][StatusNext]_vars

(***************************************************************************)
(* Properties                                                              *)
(***************************************************************************)

\* The operations that call _wait_for_services.
PassOps == {"run_manager", "restart_manager"}

\* e is of a class the p-th _retry call declares retryable.
Declared(p, e) == e \in Exceptions[p]

\* No pika connection and no socket created by probe p is open.
Released(p) ==
    /\ sock[p] \in {"none", "closed"}
    /\ p = BrokerProbe => conns = 0

\* C1: in a readiness pass the probes are attempted in the declared order,
\* one at a time: a probe has been attempted only if its predecessor has left
\* its loop by break, and while a probe is being attempted no later probe has
\* been attempted and the probe itself has not succeeded yet.
C1_ProbesInDeclaredOrder ==
    /\ \A p \in Probes : (p > 1 /\ calls[p] > 0) => successes[p - 1] = 1
    /\ InPass => /\ cur \in Probes
                 /\ successes[cur] = 0
                 /\ \A p \in Probes : p > cur => calls[p] = 0
                 /\ \A p \in Probes : p < cur => successes[p] = 1

\* C1 witness: the fourth probe is attempted after the first needed a retry.
C1_Witness == pc = "func" /\ cur = 4 /\ calls[1] = 2 /\ successes[3] = 1

\* C2: when every attempt of probe k up to the budget ended in a caught
\* (retryable) error, the pass is aborted at probe k: no later probe has been
\* called and every earlier probe has succeeded exactly once.
C2_ExhaustionAborts ==
    \A k \in Probes :
        sleeps[k] = MaxAttempts =>
            /\ cur = k
            /\ pc \in {"else", "exhausted"}
            /\ calls[k] = MaxAttempts
            /\ \A p \in Probes : p > k => calls[p] = 0
            /\ \A p \in Probes : p < k => successes[p] = 1

\* C2 witness: the data-store probe ran out of attempts after the broker, REST
\* and log probes each succeeded once.
C2_Witness ==
    /\ pc = "exhausted"
    /\ cur = 4
    /\ sleeps[4] = MaxAttempts
    /\ \A p \in 1..3 : successes[p] = 1

\* The error value e tells which probe failed: its class is one that the
\* _retry call of probe k lists and no other _retry call does.
NamesProbe(e, k) ==
    /\ Declared(k, e)
    /\ \A j \in Probes : j # k => ~Declared(j, e)

C4_PropagatesAtFirstAttempt ==
    (pc = "propagated" /\ raisedIn = "func") =>
        /\ raised \in Errors(cur) /\ ~Declared(cur, raised)
        /\ calls[cur] = 1
        /\ sleeps[cur] = 0
        /\ \A p \in Probes : p > cur => calls[p] = 0

\* C4 (amended): when a probe's func raises an error outside its retryable
\* set, that error propagates at once: the raising call is the probe's last,
\* no sleep follows it (the sleeps are those of the earlier, retryable
\* failures: one fewer than the calls, none when it is the first call), and
\* no later probe is attempted.  Only errors of the declared set are retried.
C4_NonRetryablePropagates ==
    /\ (pc = "propagated" /\ raisedIn = "func") =>
           /\ raised \in Errors(cur) /\ ~Declared(cur, raised)
           /\ sleeps[cur] = calls[cur] - 1
           /\ \A p \in Probes : p > cur => calls[p] = 0
    /\ pc = "except" => Declared(cur, lastExc)

\* C4 witness: func raised a non-retryable error on its second call.
C4_Witness ==
    /\ pc = "propagated"
    /\ raisedIn = "func"
    /\ calls[cur] = 2
    /\ sleeps[cur] = 1

\* C5: cleanup is called exactly once on a probe that succeeded and never on
\* a probe whose func never returned.
C5_CleanupOncePerSuccessfulProbe ==
    \A p \in Probes :
        HasCleanup[p] =>
            /\ successes[p] = 1 => cleanups[p] = 1
            /\ firstOk[p] = 0 => cleanups[p] = 0

\* C6: when func fails j times and returns on call j+1, func is called
\* exactly j+1 times and exactly j sleeps are done for the probe.
C6_CallsAndSleeps ==
    \A p \in Probes :
        firstOk[p] > 0 =>
            /\ calls[p] = firstOk[p]
            /\ sleeps[p] = firstOk[p] - 1

\* The state part of C7: no probe is called more often than the budget, a
\* probe's retries end by exhaustion only when its own count has reached the
\* budget, and an operation with a pass returns only after four successes.
C7_Budget ==
    /\ \A p \in Probes : calls[p] <= MaxAttempts /\ sleeps[p] <= MaxAttempts
    /\ pc \in {"else", "exhausted"} =>
           calls[cur] = MaxAttempts /\ sleeps[cur] = MaxAttempts
    /\ (pc = "returned" /\ op \in PassOps) =>
           \A p \in Probes : successes[p] = 1

\* The step part of C7: below the budget a caught error is always followed
\* by another attempt of the same probe.
C7_Retry ==
    (pc = "except" /\ calls[cur] < MaxAttempts) => (pc' = "func" /\ cur' = cur)

\* C7: every readiness pass terminates, in success after four successes or in
\* a failure; each probe is called at most the budget's number of times, each
\* probe has the whole budget, and only the budget ends a failing probe's
\* retries.
C7_PassTerminates ==
    /\ []C7_Budget
    /\ [][C7_Retry]_vars
    /\ (InPass ~> Ended)

\* C7 witness: the REST probe ran out of attempts although the broker probe
\* had used all of its own.
C7_Witness ==
    /\ pc = "exhausted"
    /\ cur = 2
    /\ calls[1] = MaxAttempts
    /\ calls[2] = MaxAttempts

\* C8 (as stated): run_manager, restart_manager and
\* bootstrap_prepared_container return normally only after a complete
\* readiness pass that followed the (re)start has succeeded.
C8_StartOpsWaitForServices ==
    (pc = "returned"
        /\ op \in {"run_manager", "restart_manager",
                   "bootstrap_prepared_container"}) =>
        \A p \in Probes : successes[p] = 1

\* C8 (amended): run_manager and restart_manager return normally only after
\* a complete readiness pass that followed the (re)start has succeeded;
\* bootstrap_prepared_container returns after docl bootstrap without any
\* readiness probe.
C8_RunAndRestartWaitForServices ==
    /\ (pc = "returned" /\ op \in {"run_manager", "restart_manager"}) =>
           \A p \in Probes : successes[p] = 1
    /\ (pc = "returned" /\ op = "bootstrap_prepared_container") =>
           \A p \in Probes : calls[p] = 0
    /\ (op \in {"run_manager", "restart_manager"}
           /\ pc \in {"exhausted", "propagated", "docl_failed"}) =>
           \E p \in Probes : successes[p] = 0

\* C8 witness: restart_manager has returned after a pass in which a probe
\* was retried.
C8_Witness ==
    /\ pc = "returned"
    /\ op = "restart_manager"
    /\ sleeps[4] = 1
    /\ \A p \in Probes : successes[p] = 1

\* C9: while a probe is being attempted, no connection or socket opened by an
\* earlier probe is still open.
C9_ReleasedBeforeNextProbe ==
    InPass => \A p \in Probes : p < cur => Released(p)

\* C9 witness: the data-store probe is attempted after the broker connection
\* and the log socket were opened, one cleanup having raised on the way.
C9_Witness ==
    /\ pc = "func"
    /\ cur = 4
    /\ cleanups[1] = 2
    /\ sock[3] = "closed"

\* C10: when the readiness pass has ended, however it ended, every
\* connection and socket created for probing is closed.
C10_AllClosedAtEnd ==
    Ended => \A p \in Probes : Released(p)

\* The operations that take a container_id argument.
ContainerOps ==
    {"bootstrap_prepared_container", "save_image", "restart_manager",
     "read_file", "execute", "copy_file_to_manager", "install_docker",
     "build_agent"}

\* C11 (as stated): the default container id and address change only in a
\* step of run_manager or restart_manager.
C11_SetByStartAndRestart ==
    [][globals' # globals => op' \in {"run_manager", "restart_manager"}]_vars

\* C11 (amended): the default container id and address change only in a
\* step of run_manager or prepare_bootstrappable_container, namely the step
\* in which the operation is called and its docl command reports the
\* container; restart_manager and every other operation leave them unchanged.
C11_SetByRunAndPrepare ==
    [][globals' # globals =>
          /\ Ended
          /\ op' \in {"run_manager", "prepare_bootstrappable_container"}
          /\ default_container_id' = container_details'
          /\ manager_ip' = container_details']_vars

\* C11 witness: prepare_bootstrappable_container has made the container it
\* prepared the default one.
C11_Witness ==
    /\ op = "prepare_bootstrappable_container"
    /\ pc = "returned"
    /\ container_details = "c2"
    /\ default_container_id = "c2"
    /\ manager_ip = "c2"

\* The state part of C12: a pass that has returned has called and left by
\* break every probe, and a pass that ran out of attempts has used the whole
\* budget on the probe that failed, whatever happened in an earlier pass.
C12_FullPass ==
    /\ (op \in PassOps /\ pc = "returned") =>
           \A p \in Probes : calls[p] >= 1 /\ successes[p] = 1
    /\ (op \in PassOps /\ pc = "exhausted") => calls[cur] = MaxAttempts

\* The step part of C12: every pass begins at the first probe with nothing
\* called, slept or succeeded and no socket created.
C12_Start ==
    (Ended /\ pc' \in {"func", "cleanup", "except", "else"}) =>
        /\ pc' = "func"
        /\ cur' = 1
        /\ calls' = Zero
        /\ sleeps' = Zero
        /\ cleanups' = Zero
        /\ successes' = Zero
        /\ sock' = NoSock

\* C12: a readiness pass keeps no memory between invocations: invoked again
\* after a failed or successful pass it begins at the first probe with a full
\* budget for every probe and probes again those that succeeded before.
C12_NoMemory == [][C12_Start]_vars /\ []C12_FullPass

\* C12 witness: after a pass that failed, a new pass has probed all four
\* probes again and returned.
C12_Witness ==
    /\ earlier = "failed"
    /\ op = "restart_manager"
    /\ pc = "returned"
    /\ \A p \in Probes : calls[p] >= 1

\* C14: run_manager sets the default container id and address from the
\* details docl run reported before the readiness pass begins, and they stay
\* so through the pass and after it, also when the pass fails.
C14_DefaultSetBeforePass ==
    (op = "run_manager" /\ pc # "docl_failed") =>
        /\ container_details \in Containers
        /\ default_container_id = container_details
        /\ manager_ip = container_details

\* C14 witness: the pass of run_manager failed and the default container is
\* the one just started.
C14_Witness ==
    /\ op = "run_manager"
    /\ pc = "exhausted"
    /\ container_details = "c2"
    /\ default_container_id = "c2"

\* The state part of C15: when the docl command of run_manager or
\* restart_manager fails, it has been run once and no probe has been called.
C15_NoProbe ==
    (op \in PassOps /\ pc = "docl_failed") =>
        /\ docl_calls = 1
        /\ calls = Zero
        /\ cur = 0
        /\ container_details = None
        /\ raisedIn = "docl"

\* The step part of C15: the step in which the docl command fails leaves the
\* default container id and address as they were.
C15_Keeps == pc' = "docl_failed" => UNCHANGED globals

\* C15: a failure of the docl command in run_manager or restart_manager
\* surfaces at once: one docl call, no probe, default container unchanged.
C15_ProvisionerFailure == []C15_NoProbe /\ [][C15_Keeps]_vars

\* C15 witness: docl run failed in run_manager while a default container set
\* earlier is still the default.
C15_Witness ==
    /\ op = "run_manager"
    /\ pc = "docl_failed"
    /\ default_container_id = "c1"

\* The state part of C16: a container-scoped operation addresses the id it
\* was given, and the default id when it was given none.
C16_Target ==
    op \in ContainerOps =>
        target = (IF arg # None THEN arg ELSE default_container_id)

\* The step part of C16: calling a container-scoped operation, with or
\* without an explicit id, leaves the default id unchanged.
C16_Frame == op' \in ContainerOps => UNCHANGED default_container_id

\* C16: every container-scoped operation targets the explicit container id
\* when one is passed and the current default id otherwise; passing an
\* explicit id never changes the default.
C16_ExplicitOrDefault == []C16_Target /\ [][C16_Frame]_vars

\* C16 witness: read_file was given an id other than the default one.
C16_Witness ==
    /\ op = "read_file"
    /\ arg = "c2"
    /\ target = "c2"
    /\ default_container_id = "c1"

\* C17: the readiness pass of restart_manager probes the address of the
\* container that was restarted.
C17_ProbesRestarted ==
    (op = "restart_manager" /\ pc # "docl_failed" /\ manager_ip # None) =>
        container_ip = target

\* The state part of C18: inside a block config.yaml holds the config that
\* was there when the block was entered with the additional expose and
\* resources entries appended and the blueprint path replaced if one was
\* given; after an inner block was left this is the outer block's config.
C18_Inside ==
    frames # <<>> =>
        LET f == Head(frames)
        IN /\ config_yaml.expose = f.entered.expose \o f.additional_expose
           /\ config_yaml.resources =
                  f.entered.resources \o f.additional_resources
           /\ config_yaml.simple_manager_blueprint_path =
                  IF f.manager_blueprint_path \in Blueprints
                    THEN f.manager_blueprint_path
                    ELSE f.entered.simple_manager_blueprint_path

\* The step part of C18: leaving a block, normally or by an exception,
\* puts back the config that was there when that block was entered.
C18_Exit ==
    (frames # <<>> /\ frames' = Tail(frames)) =>
        config_yaml' = Head(frames).entered

\* C18: update_config is a scoped change of config.yaml, restored on every
\* exit, also when blocks are nested.
C18_ScopedChange == []C18_Inside /\ [][C18_Exit]_vars

\* C18 witness: an inner block that had appended entries was left by an
\* exception and config.yaml is again what the outer block had made it.
C18_Witness ==
    /\ exited = "by exception"
    /\ Len(frames) = 1
    /\ Head(frames).additional_expose = <<8080>>
    /\ Head(frames).entered.expose = <<9090>>
    /\ config_yaml.expose = <<9090, 8080>>

\* The state part of C13: an answer of Status.get has status "running"; its
\* services are ['undefined'] exactly when the try block raised ImportError,
\* and otherwise one entry per service of job_list; any other error leaves
\* Status.get as it was raised.
C13_Answer ==
    /\ response.kind = "returned" =>
          /\ response.status = "running"
          /\ error \in {"none", "ImportError"}
          /\ error = "ImportError" => response.services = Sentinel
          /\ error = "none" =>
                DOMAIN response.services =
                    {job_list[unit] : unit \in DOMAIN job_list}
    /\ response.kind = "raised" =>
          /\ error \notin {"none", "ImportError"}
          /\ response.exception = error
    /\ response.kind = "none" => error = "none" /\ job_list = NoTable

\* The step part of C13: the services of a new answer report each unit of
\* job_list as up or down as it is when the request is served.
C13_Enumerates ==
    (response' # response /\ error' = "none") =>
        \A unit \in DOMAIN job_list' :
            response'.services[job_list'[unit]] =
                (IF unit \in inactive THEN "down" ELSE "up")

\* C13: Status.get always answers with status "running"; services is the
\* enumeration of the service table when get_services can be imported and
\* the sentinel ['undefined'] if and only if ImportError was raised; no other
\* error is turned into the sentinel.
C13_RunningOrSentinel == []C13_Answer /\ [][C13_Enumerates]_vars

\* C13 witness: get_services was imported and raised ImportError itself, and
\* the answer is the sentinel.
C13_Witness ==
    /\ response.kind = "returned"
    /\ job_list # NoTable
    /\ error = "ImportError"
    /\ response.services = Sentinel

\* The nine base services other than the single-node postgresql.
OtherNine ==
    {"cloudify-mgmtworker.service", "cloudify-restservice.service",
     "cloudify-amqpinflux.service", "cloudify-influxdb.service",
     "cloudify-rabbitmq.service", "cloudify-riemann.service",
     "cloudify-webui.service", "logstash.service", "nginx.service"}

\* C19: the table given to get_services never has both PostgreSQL entries:
\* on a single node it is the ten base services with postgresql-9.5, on a
\* clustered one the other nine with cloudify-postgresql, cloudify-consul
\* and cloudify-syncthing, whatever earlier requests enumerated.
C19_ServiceTable ==
    job_list # NoTable =>
        /\ ~({"postgresql-9.5.service", "cloudify-postgresql.service"}
                 \subseteq DOMAIN job_list)
        /\ ~clustered =>
              DOMAIN job_list = OtherNine \cup {"postgresql-9.5.service"}
        /\ clustered =>
              DOMAIN job_list =
                  OtherNine \cup {"cloudify-postgresql.service",
                                  "cloudify-consul.service",
                                  "cloudify-syncthing.service"}
        /\ \A unit \in DOMAIN job_list :
              job_list[unit] = "PostgreSQL" <=>
                  unit \in {"postgresql-9.5.service",
                            "cloudify-postgresql.service"}

\* C19 witness: after a clustered request a single-node request enumerates
\* the ten base services.
C19_Witness ==
    /\ seen = {TRUE, FALSE}
    /\ ~clustered
    /\ Cardinality(DOMAIN job_list) = 10
    /\ "postgresql-9.5.service" \in DOMAIN job_list
====
